---- MODULE Spec2Model ----
(***************************************************************************)
(* State-machine model of src/main.py (the "mia" voice widget): the        *)
(* recording toggle of SpeechRecognizer, its calibration threads, the      *)
(* background listener threads that run _process_audio, the clipboard and  *)
(* the UI effects (button icon, tooltips), and of UserInterface: its       *)
(* construction, the dragging of the window and the tooltips' placement    *)
(* and fade animation.                                                     *)
(*                                                                         *)
(* Threads interleave between Python statements: the UI thread runs the    *)
(* button handler and the root.after tasks, every _start_recording spawns  *)
(* one calibration thread, and every listen_in_background call starts one  *)
(* listener thread, which calls _process_audio on itself.  Strings are     *)
(* sequences of tokens, "" is << >>.                                       *)
(***************************************************************************)
EXTENDS Integers, Sequences, FiniteSets

\* ------------------------------------------------------------------ bounds

\* Number of recording sessions the user may arm (one calibration thread each).
MaxSessions == 2

\* Number of utterances the microphone picks up in a run.
MaxUtterances == 2

Sessions == 1..MaxSessions

\* The UI thread is thread 0; the listener thread of session s is thread s.
UI == 0

Threads == {UI} \cup Sessions

\* ------------------------------------------------------------- vocabulary

\* The value None of stop_listening; otherwise it holds the stopper of the
\* listener of a session, named by the session.
None == 0

Space == <<" ">>

\* What recognize_google may return: the empty string or a phrase.
Texts == { <<>>, <<"hola", " ", "mundo">> }

\* What the clipboard holds before the program writes it.
PriorClipboard == <<"previous">>

\* The outcome of recognize_google: a text, UnknownValueError or RequestError.
Outcomes == [kind : {"text"}, text : Texts]
            \cup { [kind |-> "unknown", text |-> <<>>],
                   [kind |-> "error", text |-> <<>>] }

NoOutcome == [kind |-> "none", text |-> <<>>, armed |-> FALSE]

VARIABLES
    is_recording,     \* SpeechRecognizer.is_recording
    stop_listening,   \* SpeechRecognizer.stop_listening: None or a stopper
    recognized_text,  \* SpeechRecognizer.recognized_text
    icon,             \* image of ui.record_button: "mic" or "stop"
    clipboard,        \* the system clipboard's text
    pc,               \* per thread: the statement it is about to run
    calib,            \* per session: position of its calibration thread
    running,          \* per session: the listener's running[0] flag
    spawned,          \* calibration threads started so far
    heard,            \* utterances captured so far
    afterQueue,       \* root.after tasks pending on the UI thread
    loaded,           \* per listener: recognized_text as line 179 read it
    res,              \* per listener: outcome of the current callback
    tips,             \* per listener: tooltips the current callback showed
    wrote,            \* per listener: set_clipboard_text calls of the callback
    effects,          \* every UI effect performed so far, with its thread
    toggledOff,       \* sessions a toggle of the user has disarmed
    stage,            \* the step UserInterface.__init__ is about to run
    assets,           \* per icon file: whether it can be opened and decoded
    icons,            \* ui.mic_icon and ui.stop_icon
    screen,           \* winfo_screenwidth() and winfo_screenheight()
    winpos,           \* position of the root window on the screen
    tooltip,          \* per tooltip: its Toplevel window and its animation
    geometry          \* rectangle of the tooltip placed last (line 478)

sessionVars == <<is_recording, stop_listening, recognized_text, icon,
                 clipboard, pc, calib, running, spawned, heard, afterQueue,
                 loaded, res, tips, wrote, effects, toggledOff>>

uiVars == <<stage, assets, icons, screen, winpos, tooltip, geometry>>

vars == <<sessionVars, uiVars>>

\* The label of a thread in the log of UI effects.
ThreadKind(th) == IF th = UI THEN "ui" ELSE "listener"

\* SpeechRecognizer.__init__ (lines 104-116) and the world around it.
SessionIdle ==
    /\ is_recording = FALSE
    /\ stop_listening = None
    /\ recognized_text = <<>>
    /\ icon = "mic"
    /\ clipboard = PriorClipboard
    /\ pc = [th \in Threads |-> IF th = UI THEN "idle" ELSE "off"]
    /\ calib = [s \in Sessions |-> "none"]
    /\ running = [s \in Sessions |-> FALSE]
    /\ spawned = 0
    /\ heard = 0
    /\ afterQueue = 0
    /\ loaded = [s \in Sessions |-> <<>>]
    /\ res = [s \in Sessions |-> NoOutcome]
    /\ tips = [s \in Sessions |-> <<>>]
    /\ wrote = [s \in Sessions |-> <<>>]
    /\ effects = {}
    /\ toggledOff = {}


\* -------------------------------------------------------- user interface

\* Number of tooltips shown in a run.
MaxTooltips == 2

Tooltips == 1..MaxTooltips

\* max_size of _load_and_resize_image: the side of a loaded icon.
MaxSize == 288

\* Side of a generated fallback icon.
FallbackSize == 100

\* padx of the record button, and the padx/pady of its pack() call.
ButtonPadX == 15

PackPad == 8

\* _setup_window_position: the window starts this far from the screen's
\* right and bottom edges.
OffsetX == 680

OffsetY == 260

\* _position_tooltip: the gap between tooltip and button, and the least
\* x and y it accepts.
Gap == 5

Margin == 10

\* Screen sizes (width, height) the program may run on.
Screens == { <<1920, 1080>>, <<800, 600>> }

\* Sizes (width, height) Tk may give a tooltip, by the length of its text.
TooltipSizes == { <<60, 30>>, <<224, 52>> }

\* Pointer motions (dx, dy) of one <B1-Motion> event.
Moves == { <<600, -330>>, <<-600, 330>> }

\* The durations show_tooltip is called with (lines 165, 183, 192, 196).
Durations == {1500, 2000, 3000}

\* A float near t/10 is <<t, d>>: the binary64 number nearest to t/10 plus
\* d * 2^-56.  The int 0 of line 417 and the literals 0.0, 0.9 and 0 of
\* the fade loops:
Zero == <<0, 0>>

Cap == <<9, 0>>

\* a < b for two such floats.
Less(a, b) == a[1] < b[1] \/ (a[1] = b[1] /\ a[2] < b[2])

\* The opacity in tenths.
Tenths(a) == a[1]

\* alpha + 0.1 as binary64 addition rounds it, on the values _fade_in
\* reaches: 0.0, 0.1, 0.2, 0.30000000000000004, 0.4, 0.5, 0.6, 0.7,
\* 0.7999999999999999, 0.8999999999999999, 0.9999999999999999.
FloatAdd(a) ==
    CASE a = <<2, 0>> -> <<3, 4>>
      [] a = <<3, 4>> -> <<4, 0>>
      [] a = <<7, 0>> -> <<8, -8>>
      [] a = <<8, -8>> -> <<9, -8>>
      [] a = <<9, -8>> -> <<10, -8>>
      [] OTHER -> <<a[1] + 1, a[2]>>

\* alpha - 0.1 in exact arithmetic.
FloatSub_Exact(a) == <<a[1] - 1, 0>>

\* alpha - 0.1 as binary64 subtraction rounds it, on the values _fade_out
\* reaches: 0.9, 0.8, 0.7000000000000001, 0.6000000000000001,
\* 0.5000000000000001, 0.40000000000000013, 0.30000000000000016,
\* 0.20000000000000015, 0.10000000000000014, 1.3877787807814457e-16,
\* -0.09999999999999987.
FloatSub(a) ==
    CASE a = <<8, 0>> -> <<7, 8>>
      [] a = <<4, 8>> -> <<3, 12>>
      [] a = <<3, 12>> -> <<2, 10>>
      [] OTHER -> <<a[1] - 1, a[2]>>

NoIcons == [mic |-> "none", stop |-> "none"]

\* A tooltip that show_tooltip has not created yet.
NoTooltip ==
    [state |-> "none", duration |-> 0, attr |-> Zero, alpha |-> Zero,
     left |-> 0, fades |-> 0, destroys |-> 0]

\* _setup_window_position (lines 346-350): where the window starts.
StartPosition(scr) == <<scr[1] - OffsetX, scr[2] - OffsetY>>

\* The user interface as UserInterface.__init__ leaves it when both icon
\* files load.
UIBuilt ==
    /\ stage = "ready"
    /\ assets = [listen |-> TRUE, stop |-> TRUE]
    /\ icons = [mic |-> "mia_listen.png", stop |-> "mia_stop.png"]
    /\ screen = <<1920, 1080>>
    /\ winpos = StartPosition(screen)
    /\ tooltip = [i \in Tooltips |-> NoTooltip]
    /\ geometry = <<>>

\* The program once VoiceAssistantApp.__init__ has returned.
Init == SessionIdle /\ UIBuilt

\* The program when UserInterface.__init__ starts: tk.Tk() has made the
\* root window and nothing of the interface exists.
InitUI ==
    /\ SessionIdle
    /\ stage = "configure"
    /\ assets \in [listen : BOOLEAN, stop : BOOLEAN]
    /\ icons = NoIcons
    /\ screen \in Screens
    /\ winpos = <<0, 0>>
    /\ tooltip = [i \in Tooltips |-> NoTooltip]
    /\ geometry = <<>>


\* ------------------------------------------------------------ UI effects

\* ui.record_button.config(image=...) run by thread th (lines 137 and 147).
ButtonConfig(th) == effects \cup {[what |-> "icon", by |-> ThreadKind(th)]}

\* ui.show_tooltip(...) run by thread th (lines 165, 183, 192 and 196).
ShowTooltip(th) == effects \cup {[what |-> "tooltip", by |-> ThreadKind(th)]}

\* ClipboardManager.set_clipboard_text(text): the clipboard after the call.
\* ok is whether win32clipboard accepted the text; any failure is caught
\* and leaves the clipboard as it was.
SetClipboardText(text, ok) == IF ok THEN text ELSE clipboard

\* ------------------------------------------------- the UI thread: toggling

\* toggle_recording, line 122: the button handler reads is_recording.
ToggleRecording ==
    /\ pc[UI] = "idle"
    /\ is_recording \/ spawned < MaxSessions
    /\ pc' = [pc EXCEPT ![UI] = IF ~is_recording THEN "start_clear"
                                                ELSE "stop_check"]
    /\ UNCHANGED <<is_recording, stop_listening, recognized_text, icon,
                   clipboard, calib, running, spawned, heard, afterQueue,
                   loaded, res, tips, wrote, effects, toggledOff>>
    /\ UNCHANGED uiVars

\* _start_recording, line 131: recognized_text = "".
StartClear ==
    /\ pc[UI] = "start_clear"
    /\ recognized_text' = <<>>
    /\ pc' = [pc EXCEPT ![UI] = "start_spawn"]
    /\ UNCHANGED <<is_recording, stop_listening, icon, clipboard, calib,
                   running, spawned, heard, afterQueue, loaded, res, tips,
                   wrote, effects, toggledOff>>
    /\ UNCHANGED uiVars

\* The calibration threads line 134 starts: one, for the next session.
SpawnedThreads == {spawned + 1}

\* _start_recording, line 134: threading.Thread(...).start().
StartSpawn ==
    /\ pc[UI] = "start_spawn"
    /\ calib' = [s \in Sessions |->
                    IF s \in SpawnedThreads THEN "calibrating" ELSE calib[s]]
    /\ spawned' = spawned + Cardinality(SpawnedThreads)
    /\ pc' = [pc EXCEPT ![UI] = "start_icon"]
    /\ UNCHANGED <<is_recording, stop_listening, recognized_text, icon,
                   clipboard, running, heard, afterQueue, loaded, res, tips,
                   wrote, effects, toggledOff>>
    /\ UNCHANGED uiVars

\* _start_recording, line 137: the button shows the stop icon.
StartIcon ==
    /\ pc[UI] = "start_icon"
    /\ icon' = "stop"
    /\ effects' = ButtonConfig(UI)
    /\ pc' = [pc EXCEPT ![UI] = "start_flag"]
    /\ UNCHANGED <<is_recording, stop_listening, recognized_text, clipboard,
                   calib, running, spawned, heard, afterQueue, loaded, res,
                   tips, wrote, toggledOff>>
    /\ UNCHANGED uiVars

\* _start_recording, line 138: is_recording = True; the handler returns.
StartFlag ==
    /\ pc[UI] = "start_flag"
    /\ is_recording' = TRUE
    /\ pc' = [pc EXCEPT ![UI] = "idle"]
    /\ UNCHANGED <<stop_listening, recognized_text, icon, clipboard, calib,
                   running, spawned, heard, afterQueue, loaded, res, tips,
                   wrote, effects, toggledOff>>
    /\ UNCHANGED uiVars

\* ---------------------------------- _stop_recording, run by any thread th

\* Where a thread goes when _stop_recording returns: the UI thread back to
\* the event loop, a listener to the end of its callback.
AfterStop(th) == IF th = UI THEN "idle" ELSE "cb_done"

\* Where a thread goes when _stop_recording raises: Tk reports the error of
\* a handler and goes on; a listener thread dies of an uncaught exception.
AfterRaise(th) == IF th = UI THEN "idle" ELSE "dead"

\* Line 144: if self.stop_listening.
StopCheck(th) ==
    /\ pc[th] = "stop_check"
    /\ pc' = [pc EXCEPT ![th] = IF stop_listening # None THEN "stop_call"
                                                          ELSE "stop_icon"]
    /\ UNCHANGED <<is_recording, stop_listening, recognized_text, icon,
                   clipboard, calib, running, spawned, heard, afterQueue,
                   loaded, res, tips, wrote, effects, toggledOff>>
    /\ UNCHANGED uiVars

\* StopCall with wait_for_stop=True: the stopper joins the listener thread,
\* so the call returns only once that thread has ended.
StopCall_Waits(th) ==
    /\ pc[th] = "stop_call"
    /\ IF stop_listening = None
         THEN /\ pc' = [pc EXCEPT ![th] = AfterRaise(th)]
              /\ UNCHANGED running
         ELSE /\ pc[stop_listening] \in {"exited", "dead"}
              /\ running' = [running EXCEPT ![stop_listening] = FALSE]
              /\ pc' = [pc EXCEPT ![th] = "stop_clear"]
    /\ UNCHANGED <<is_recording, stop_listening, recognized_text, icon,
                   clipboard, calib, spawned, heard, afterQueue, loaded, res,
                   tips, wrote, effects, toggledOff>>
    /\ UNCHANGED uiVars

\* Line 145: self.stop_listening(wait_for_stop=False).  The attribute is read
\* again: the stopper found there clears its listener's running flag and
\* does not join the thread; None found there is not callable (TypeError).
StopCall(th) ==
    /\ pc[th] = "stop_call"
    /\ IF stop_listening = None
         THEN /\ pc' = [pc EXCEPT ![th] = AfterRaise(th)]
              /\ UNCHANGED running
         ELSE /\ running' = [running EXCEPT ![stop_listening] = FALSE]
              /\ pc' = [pc EXCEPT ![th] = "stop_clear"]
    /\ UNCHANGED <<is_recording, stop_listening, recognized_text, icon,
                   clipboard, calib, spawned, heard, afterQueue, loaded, res,
                   tips, wrote, effects, toggledOff>>
    /\ UNCHANGED uiVars

\* Line 146: self.stop_listening = None.
StopClear(th) ==
    /\ pc[th] = "stop_clear"
    /\ stop_listening' = None
    /\ pc' = [pc EXCEPT ![th] = "stop_icon"]
    /\ UNCHANGED <<is_recording, recognized_text, icon, clipboard, calib,
                   running, spawned, heard, afterQueue, loaded, res, tips,
                   wrote, effects, toggledOff>>
    /\ UNCHANGED uiVars

\* Line 147: the button shows the microphone icon.
StopIcon(th) ==
    /\ pc[th] = "stop_icon"
    /\ icon' = "mic"
    /\ effects' = ButtonConfig(th)
    /\ pc' = [pc EXCEPT ![th] = "stop_flag"]
    /\ UNCHANGED <<is_recording, stop_listening, recognized_text, clipboard,
                   calib, running, spawned, heard, afterQueue, loaded, res,
                   tips, wrote, toggledOff>>
    /\ UNCHANGED uiVars

\* Line 148: is_recording = False; _stop_recording returns.  A stop run by
\* the button handler disarms the session the user armed last.
StopFlag(th) ==
    /\ pc[th] = "stop_flag"
    /\ is_recording' = FALSE
    /\ pc' = [pc EXCEPT ![th] = AfterStop(th)]
    /\ toggledOff' = IF th = UI THEN toggledOff \cup {spawned} ELSE toggledOff
    /\ UNCHANGED <<stop_listening, recognized_text, icon, clipboard, calib,
                   running, spawned, heard, afterQueue, loaded, res, tips,
                   wrote, effects>>
    /\ UNCHANGED uiVars

\* ------------------------------------------- the UI thread: root.after

\* The event loop runs a task queued by root.after (line 165): the greeting
\* tooltip, shown by the UI thread.
RunAfterTask ==
    /\ pc[UI] = "idle"
    /\ afterQueue > 0
    /\ afterQueue' = afterQueue - 1
    /\ effects' = ShowTooltip(UI)
    /\ UNCHANGED <<is_recording, stop_listening, recognized_text, icon,
                   clipboard, pc, calib, running, spawned, heard, loaded, res,
                   tips, wrote, toggledOff>>
    /\ UNCHANGED uiVars

\* ------------------------------------------------ the calibration thread

\* _calibrate_and_start, lines 154-156, when opening or calibrating the
\* microphone raises: the thread dies and no listener starts.
CalibFail(s) ==
    /\ calib[s] = "calibrating"
    /\ calib' = [calib EXCEPT ![s] = "failed"]
    /\ UNCHANGED <<is_recording, stop_listening, recognized_text, icon,
                   clipboard, pc, running, spawned, heard, afterQueue, loaded,
                   res, tips, wrote, effects, toggledOff>>
    /\ UNCHANGED uiVars

\* Lines 154-160: the calibration ends and listen_in_background(...) starts
\* the listener thread of the session, its running flag set.
CalibListen(s) ==
    /\ calib[s] = "calibrating"
    /\ calib' = [calib EXCEPT ![s] = "started"]
    /\ running' = [running EXCEPT ![s] = TRUE]
    /\ pc' = [pc EXCEPT ![s] = "listening"]
    /\ UNCHANGED <<is_recording, stop_listening, recognized_text, icon,
                   clipboard, spawned, heard, afterQueue, loaded, res, tips,
                   wrote, effects, toggledOff>>
    /\ UNCHANGED uiVars

\* Line 160: the stopper listen_in_background returned is stored.
CalibStore(s) ==
    /\ calib[s] = "started"
    /\ stop_listening' = s
    /\ calib' = [calib EXCEPT ![s] = "stored"]
    /\ UNCHANGED <<is_recording, recognized_text, icon, clipboard, pc,
                   running, spawned, heard, afterQueue, loaded, res, tips,
                   wrote, effects, toggledOff>>
    /\ UNCHANGED uiVars

\* Lines 163-165: root.after(0, ...) queues the greeting tooltip for the UI
\* thread; the calibration thread ends.
CalibGreet(s) ==
    /\ calib[s] = "stored"
    /\ afterQueue' = afterQueue + 1
    /\ calib' = [calib EXCEPT ![s] = "done"]
    /\ UNCHANGED <<is_recording, stop_listening, recognized_text, icon,
                   clipboard, pc, running, spawned, heard, loaded, res, tips,
                   wrote, effects, toggledOff>>
    /\ UNCHANGED uiVars

\* --------------------------------------------------- the listener thread

\* The listener has captured a phrase and, its running flag still set,
\* calls _process_audio (line 167) on its own thread.
Hear(l) ==
    /\ pc[l] = "listening"
    /\ running[l]
    /\ heard < MaxUtterances
    /\ heard' = heard + 1
    /\ pc' = [pc EXCEPT ![l] = "recognize"]
    /\ UNCHANGED <<is_recording, stop_listening, recognized_text, icon,
                   clipboard, calib, running, spawned, afterQueue, loaded,
                   res, tips, wrote, effects, toggledOff>>
    /\ UNCHANGED uiVars

\* The listener sees its running flag cleared and ends.
ListenerExit(l) ==
    /\ pc[l] = "listening"
    /\ ~running[l]
    /\ pc' = [pc EXCEPT ![l] = "exited"]
    /\ UNCHANGED <<is_recording, stop_listening, recognized_text, icon,
                   clipboard, calib, running, spawned, heard, afterQueue,
                   loaded, res, tips, wrote, effects, toggledOff>>
    /\ UNCHANGED uiVars

\* Where _process_audio goes with the outcome o of recognize_google
\* (lines 177-178, 190 and 194): an empty text skips the if.
Branch(o) ==
    CASE o.kind = "text" /\ o.text # <<>> -> "append"
      [] o.kind = "text" /\ o.text = <<>> -> "cb_done"
      [] o.kind = "unknown" -> "unknown_tip"
      [] o.kind = "error" -> "error_tip"

\* Line 177: recognize_google returns a text or raises.  armed records
\* whether the session was armed when the result arrived.
Recognize(l) ==
    /\ pc[l] = "recognize"
    /\ \E o \in Outcomes :
         /\ res' = [res EXCEPT ![l] =
                       [kind |-> o.kind, text |-> o.text,
                        armed |-> is_recording]]
         /\ pc' = [pc EXCEPT ![l] = Branch(o)]
    /\ UNCHANGED <<is_recording, stop_listening, recognized_text, icon,
                   clipboard, calib, running, spawned, heard, afterQueue,
                   loaded, tips, wrote, effects, toggledOff>>
    /\ UNCHANGED uiVars

\* Line 179, self.recognized_text += text + " ", is a read and then a write
\* of the attribute, and other threads run in between.  The read:
LoadText(l) ==
    /\ pc[l] = "append"
    /\ loaded' = [loaded EXCEPT ![l] = recognized_text]
    /\ pc' = [pc EXCEPT ![l] = "append_store"]
    /\ UNCHANGED <<is_recording, stop_listening, recognized_text, icon,
                   clipboard, calib, running, spawned, heard, afterQueue, res,
                   tips, wrote, effects, toggledOff>>
    /\ UNCHANGED uiVars

\* Line 179, the write: what was read, the text and a space.
AppendText(l) ==
    /\ pc[l] = "append_store"
    /\ recognized_text' = loaded[l] \o res[l].text \o Space
    /\ loaded' = [loaded EXCEPT ![l] = <<>>]
    /\ pc' = [pc EXCEPT ![l] = "ack"]
    /\ UNCHANGED <<is_recording, stop_listening, icon, clipboard, calib,
                   running, spawned, heard, afterQueue, res, tips, wrote,
                   effects, toggledOff>>
    /\ UNCHANGED uiVars

\* Lines 181-183: the acknowledgment tooltip, shown by the listener thread.
Acknowledge(l) ==
    /\ pc[l] = "ack"
    /\ tips' = [tips EXCEPT ![l] = Append(@, "ack")]
    /\ effects' = ShowTooltip(l)
    /\ pc' = [pc EXCEPT ![l] = "copy"]
    /\ UNCHANGED <<is_recording, stop_listening, recognized_text, icon,
                   clipboard, calib, running, spawned, heard, afterQueue,
                   loaded, res, wrote, toggledOff>>
    /\ UNCHANGED uiVars

\* CopiedText with the wrong argument: the empty string of line 193.
CopiedText_Empty(l) == <<>>

\* What line 185 passes to set_clipboard_text: the text just recognized.
CopiedText(l) == res[l].text

\* Line 185: ClipboardManager.set_clipboard_text(text); then line 188 calls
\* _stop_recording.
CopyText(l) ==
    /\ pc[l] = "copy"
    /\ \E ok \in BOOLEAN :
         /\ clipboard' = SetClipboardText(CopiedText(l), ok)
         /\ wrote' = [wrote EXCEPT ![l] =
                         Append(@, [text |-> CopiedText(l), ok |-> ok])]
    /\ pc' = [pc EXCEPT ![l] = "stop_check"]
    /\ UNCHANGED <<is_recording, stop_listening, recognized_text, icon, calib,
                   running, spawned, heard, afterQueue, loaded, res, tips,
                   effects, toggledOff>>
    /\ UNCHANGED uiVars

\* Lines 190-192, UnknownValueError: the retry tooltip.
UnknownTip(l) ==
    /\ pc[l] = "unknown_tip"
    /\ tips' = [tips EXCEPT ![l] = Append(@, "retry")]
    /\ effects' = ShowTooltip(l)
    /\ pc' = [pc EXCEPT ![l] = "unknown_copy"]
    /\ UNCHANGED <<is_recording, stop_listening, recognized_text, icon,
                   clipboard, calib, running, spawned, heard, afterQueue,
                   loaded, res, wrote, toggledOff>>
    /\ UNCHANGED uiVars

\* UnknownCopy going on to _stop_recording, as the success branch does.
UnknownCopy_ThenStops(l) ==
    /\ pc[l] = "unknown_copy"
    /\ \E ok \in BOOLEAN :
         /\ clipboard' = SetClipboardText(<<>>, ok)
         /\ wrote' = [wrote EXCEPT ![l] =
                         Append(@, [text |-> <<>>, ok |-> ok])]
    /\ pc' = [pc EXCEPT ![l] = "stop_check"]
    /\ UNCHANGED <<is_recording, stop_listening, recognized_text, icon, calib,
                   running, spawned, heard, afterQueue, loaded, res, tips,
                   effects, toggledOff>>
    /\ UNCHANGED uiVars

\* Line 193, UnknownValueError: set_clipboard_text("").
UnknownCopy(l) ==
    /\ pc[l] = "unknown_copy"
    /\ \E ok \in BOOLEAN :
         /\ clipboard' = SetClipboardText(<<>>, ok)
         /\ wrote' = [wrote EXCEPT ![l] =
                         Append(@, [text |-> <<>>, ok |-> ok])]
    /\ pc' = [pc EXCEPT ![l] = "cb_done"]
    /\ UNCHANGED <<is_recording, stop_listening, recognized_text, icon, calib,
                   running, spawned, heard, afterQueue, loaded, res, tips,
                   effects, toggledOff>>
    /\ UNCHANGED uiVars

\* RequestErrorTip going on to line 193, as UnknownValueError does.
RequestErrorTip_ThenClears(l) ==
    /\ pc[l] = "error_tip"
    /\ tips' = [tips EXCEPT ![l] = Append(@, "connection")]
    /\ effects' = ShowTooltip(l)
    /\ pc' = [pc EXCEPT ![l] = "unknown_copy"]
    /\ UNCHANGED <<is_recording, stop_listening, recognized_text, icon,
                   clipboard, calib, running, spawned, heard, afterQueue,
                   loaded, res, wrote, toggledOff>>
    /\ UNCHANGED uiVars

\* Lines 194-196, RequestError: the connection-error tooltip and no more.
RequestErrorTip(l) ==
    /\ pc[l] = "error_tip"
    /\ tips' = [tips EXCEPT ![l] = Append(@, "connection")]
    /\ effects' = ShowTooltip(l)
    /\ pc' = [pc EXCEPT ![l] = "cb_done"]
    /\ UNCHANGED <<is_recording, stop_listening, recognized_text, icon,
                   clipboard, calib, running, spawned, heard, afterQueue,
                   loaded, res, wrote, toggledOff>>
    /\ UNCHANGED uiVars

\* _process_audio returns to the listener's loop.
Return(l) ==
    /\ pc[l] = "cb_done"
    /\ pc' = [pc EXCEPT ![l] = "listening"]
    /\ res' = [res EXCEPT ![l] = NoOutcome]
    /\ tips' = [tips EXCEPT ![l] = <<>>]
    /\ wrote' = [wrote EXCEPT ![l] = <<>>]
    /\ UNCHANGED <<is_recording, stop_listening, recognized_text, icon,
                   clipboard, calib, running, spawned, heard, afterQueue,
                   loaded, effects, toggledOff>>
    /\ UNCHANGED uiVars

\* ---------------------------------------------------------- specification

Next ==
    \/ ToggleRecording
    \/ StartClear
    \/ StartSpawn
    \/ StartIcon
    \/ StartFlag
    \/ RunAfterTask
    \/ \E th \in Threads : StopCheck(th)
    \/ \E th \in Threads : StopCall(th)
    \/ \E th \in Threads : StopClear(th)
    \/ \E th \in Threads : StopIcon(th)
    \/ \E th \in Threads : StopFlag(th)
    \/ \E s \in Sessions : CalibFail(s)
    \/ \E s \in Sessions : CalibListen(s)
    \/ \E s \in Sessions : CalibStore(s)
    \/ \E s \in Sessions : CalibGreet(s)
    \/ \E l \in Sessions : Hear(l)
    \/ \E l \in Sessions : ListenerExit(l)
    \/ \E l \in Sessions : Recognize(l)
    \/ \E l \in Sessions : LoadText(l)
    \/ \E l \in Sessions : AppendText(l)
    \/ \E l \in Sessions : Acknowledge(l)
    \/ \E l \in Sessions : CopyText(l)
    \/ \E l \in Sessions : UnknownTip(l)
    \/ \E l \in Sessions : UnknownCopy(l)
    \/ \E l \in Sessions : RequestErrorTip(l)
    \/ \E l \in Sessions : Return(l)

Spec == Init /\ [][Next]_vars

\* ------------------------------------------------ UserInterface.__init__

\* _configure_window (lines 218-239).
ConfigureWindow ==
    /\ stage = "configure"
    /\ stage' = "frame"
    /\ UNCHANGED <<assets, icons, screen, winpos, tooltip, geometry>>
    /\ UNCHANGED sessionVars

\* _create_button_frame (lines 241-250).
CreateButtonFrame ==
    /\ stage = "frame"
    /\ stage' = "icons"
    /\ UNCHANGED <<assets, icons, screen, winpos, tooltip, geometry>>
    /\ UNCHANGED sessionVars

\* _create_fallback_icons (lines 298-321): a green and a red disc.
CreateFallbackIcons == [mic |-> "green", stop |-> "red"]

\* _load_icons without its except clause: the exception of Image.open
\* leaves UserInterface.__init__.
LoadIcons_Raises ==
    /\ stage = "icons"
    /\ IF assets.listen /\ assets.stop
         THEN /\ icons' = [mic |-> "mia_listen.png", stop |-> "mia_stop.png"]
              /\ stage' = "button"
         ELSE /\ icons' = icons
              /\ stage' = "aborted"
    /\ UNCHANGED <<assets, screen, winpos, tooltip, geometry>>
    /\ UNCHANGED sessionVars

\* _load_icons (lines 252-271): _load_and_resize_image raises when a file
\* cannot be opened or decoded, and any exception of the try block yields
\* the fallback icons.
LoadIcons ==
    /\ stage = "icons"
    /\ icons' = IF assets.listen /\ assets.stop
                  THEN [mic |-> "mia_listen.png", stop |-> "mia_stop.png"]
                  ELSE CreateFallbackIcons
    /\ stage' = "button"
    /\ UNCHANGED <<assets, screen, winpos, tooltip, geometry>>
    /\ UNCHANGED sessionVars

\* _create_record_button (lines 323-340): the button shows mic_icon.
CreateRecordButton ==
    /\ stage = "button"
    /\ stage' = "position"
    /\ UNCHANGED <<assets, icons, screen, winpos, tooltip, geometry>>
    /\ UNCHANGED sessionVars

\* _setup_window_position (lines 342-350).
SetupWindowPosition ==
    /\ stage = "position"
    /\ winpos' = StartPosition(screen)
    /\ stage' = "bind"
    /\ UNCHANGED <<assets, icons, screen, tooltip, geometry>>
    /\ UNCHANGED sessionVars

\* _bind_events (lines 352-362); __init__ returns.
BindEvents ==
    /\ stage = "bind"
    /\ stage' = "ready"
    /\ UNCHANGED <<assets, icons, screen, winpos, tooltip, geometry>>
    /\ UNCHANGED sessionVars

\* One step of UserInterface.__init__ (lines 211-216).
Construct ==
    \/ ConfigureWindow
    \/ CreateButtonFrame
    \/ LoadIcons
    \/ CreateRecordButton
    \/ SetupWindowPosition
    \/ BindEvents

\* _do_move (lines 384-395) for a pointer motion m = (dx, dy) that keeps
\* the window's corner on the screen.
DoMove(m) ==
    /\ stage = "ready"
    /\ winpos[1] + m[1] \in 0..(screen[1] - 1)
    /\ winpos[2] + m[2] \in 0..(screen[2] - 1)
    /\ winpos' = <<winpos[1] + m[1], winpos[2] + m[2]>>
    /\ UNCHANGED <<stage, assets, icons, screen, tooltip, geometry>>
    /\ UNCHANGED sessionVars

\* ---------------------------------------------------------------- tooltips

\* record_button.winfo_width(): the icon (square assets are resized to
\* max_size) and the button's padx on both sides.
ButtonWidth ==
    (IF icons = CreateFallbackIcons THEN FallbackSize ELSE MaxSize)
        + 2 * ButtonPadX

\* _position_tooltip (lines 448-478): the (x, y) handed to
\* tooltip.geometry for a tooltip of the given size.  The frame is packed
\* at (0, 0) of the root window and the button at (PackPad, PackPad) of
\* the frame.  screen_width and screen_height are read (lines 470-471)
\* and not used.
PositionTooltip(size) ==
    LET button_x == winpos[1] + 0 + PackPad
        button_y == winpos[2] + 0 + PackPad
        x == button_x + (ButtonWidth \div 2) - (size[1] \div 2)
        y == button_y - size[2] - Gap
    IN  << IF x < Margin THEN Margin ELSE x,
           IF y < Margin THEN Margin ELSE y >>

\* show_tooltip up to the call of _fade_in (lines 414-440): the i-th
\* tooltip is created with opacity 0 and placed.
ShowTooltipBegin(i, duration, size) ==
    /\ stage = "ready"
    /\ tooltip[i].state = "none"
    /\ \A j \in 1..(i - 1) : tooltip[j].state # "none"
    /\ tooltip' = [tooltip EXCEPT ![i] =
                     [NoTooltip EXCEPT !.state = "fade_in",
                                       !.duration = duration]]
    /\ geometry' = PositionTooltip(size) \o size
    /\ UNCHANGED <<stage, assets, icons, screen, winpos>>
    /\ UNCHANGED sessionVars

\* One iteration of the loop of _fade_in (lines 488-492).
FadeInStep(i) ==
    /\ tooltip[i].state = "fade_in"
    /\ Less(tooltip[i].alpha, Cap)
    /\ tooltip' = [tooltip EXCEPT ![i].attr = tooltip[i].alpha,
                                  ![i].alpha = FloatAdd(tooltip[i].alpha)]
    /\ UNCHANGED <<stage, assets, icons, screen, winpos, geometry>>
    /\ UNCHANGED sessionVars

\* show_tooltip without its last statement: no fade-out is scheduled.
FadeInEnd_NoTimer(i) ==
    /\ tooltip[i].state = "fade_in"
    /\ ~Less(tooltip[i].alpha, Cap)
    /\ tooltip' = [tooltip EXCEPT ![i].attr = Cap,
                                  ![i].state = "shown"]
    /\ UNCHANGED <<stage, assets, icons, screen, winpos, geometry>>
    /\ UNCHANGED sessionVars

\* The end of _fade_in (line 493) and the root.after of show_tooltip
\* (line 446): the opacity is the cap and the fade-out is due after
\* duration milliseconds.
FadeInEnd(i) ==
    /\ tooltip[i].state = "fade_in"
    /\ ~Less(tooltip[i].alpha, Cap)
    /\ tooltip' = [tooltip EXCEPT ![i].attr = Cap,
                                  ![i].state = "hold",
                                  ![i].left = tooltip[i].duration]
    /\ UNCHANGED <<stage, assets, icons, screen, winpos, geometry>>
    /\ UNCHANGED sessionVars

\* The tooltips whose fade-out timer has not expired.
Waiting == {i \in Tooltips : tooltip[i].state = "hold" /\ tooltip[i].left > 0}

\* Time passes until the next timer of root.after expires.
Tick ==
    /\ Waiting # {}
    /\ \E i \in Waiting :
          /\ \A j \in Waiting : tooltip[i].left <= tooltip[j].left
          /\ tooltip' = [j \in Tooltips |->
                           IF j \in Waiting
                             THEN [tooltip[j] EXCEPT
                                     !.left = @ - tooltip[i].left]
                             ELSE tooltip[j]]
    /\ UNCHANGED <<stage, assets, icons, screen, winpos, geometry>>
    /\ UNCHANGED sessionVars

\* The event loop runs the expired timer: _fade_out starts (line 502).
FadeOutBegin(i) ==
    /\ tooltip[i].state = "hold"
    /\ tooltip[i].left = 0
    /\ tooltip' = [tooltip EXCEPT ![i].state = "fade_out",
                                  ![i].alpha = Cap,
                                  ![i].fades = @ + 1]
    /\ UNCHANGED <<stage, assets, icons, screen, winpos, geometry>>
    /\ UNCHANGED sessionVars

\* One iteration of the loop of _fade_out (lines 503-507).
FadeOutStep(i) ==
    /\ tooltip[i].state = "fade_out"
    /\ Less(Zero, tooltip[i].alpha)
    /\ tooltip' = [tooltip EXCEPT ![i].attr = tooltip[i].alpha,
                                  ![i].alpha = FloatSub(tooltip[i].alpha)]
    /\ UNCHANGED <<stage, assets, icons, screen, winpos, geometry>>
    /\ UNCHANGED sessionVars

\* The end of _fade_out (line 508): tooltip.destroy().
FadeOutEnd(i) ==
    /\ tooltip[i].state = "fade_out"
    /\ ~Less(Zero, tooltip[i].alpha)
    /\ tooltip' = [tooltip EXCEPT ![i].state = "destroyed",
                                  ![i].destroys = @ + 1]
    /\ UNCHANGED <<stage, assets, icons, screen, winpos, geometry>>
    /\ UNCHANGED sessionVars

\* One step of the animation of tooltip i.
Animate(i) ==
    \/ FadeInStep(i)
    \/ FadeInEnd(i)
    \/ FadeOutBegin(i)
    \/ FadeOutStep(i)
    \/ FadeOutEnd(i)

NextUI ==
    \/ ConfigureWindow
    \/ CreateButtonFrame
    \/ LoadIcons
    \/ CreateRecordButton
    \/ SetupWindowPosition
    \/ BindEvents
    \/ \E m \in Moves : DoMove(m)
    \/ \E i \in Tooltips, d \in Durations, size \in TooltipSizes :
          ShowTooltipBegin(i, d, size)
    \/ \E i \in Tooltips : FadeInStep(i)
    \/ \E i \in Tooltips : FadeInEnd(i)
    \/ Tick
    \/ \E i \in Tooltips : FadeOutBegin(i)
    \/ \E i \in Tooltips : FadeOutStep(i)
    \/ \E i \in Tooltips : FadeOutEnd(i)

\* The user interface from its construction on, shown any tooltips at any
\* time.
SpecUI == InitUI /\ [][NextUI]_vars

\* SpecUI with an event loop that keeps running: time passes, expired
\* timers are run and a started animation loop goes on.
SpecUIFair ==
    /\ SpecUI
    /\ WF_vars(Tick)
    /\ \A i \in Tooltips : WF_vars(Animate(i))

\* ---------------------------------------------- vocabulary of the claims

\* The calibration thread of session s has started and not ended.
CalibrationAlive(s) == calib[s] \in {"calibrating", "started", "stored"}

\* The listener thread of session l has started and not ended.
ListenerAlive(l) == pc[l] \notin {"off", "exited", "dead"}

\* Session s has a thread of its own alive.
SessionAlive(s) == CalibrationAlive(s) \/ ListenerAlive(s)

\* The statements of _stop_recording.
StopPcs == {"stop_check", "stop_call", "stop_clear", "stop_icon", "stop_flag"}

\* Listener l is inside _process_audio.
InCallback(l) ==
    pc[l] \in {"recognize", "append", "append_store", "ack", "copy",
               "unknown_tip", "unknown_copy", "error_tip"} \cup StopPcs

\* This step is the button handler returning from the arming branch.
ArmEnds == pc[UI] = "start_flag" /\ pc'[UI] = "idle"

\* This step is the button handler leaving the disarming branch, by return
\* or by an exception.
DisarmEnds == pc[UI] \in StopPcs /\ pc'[UI] = "idle"

\* This step is one of _process_audio, run by listener l, after outcome k.
CallbackStep(l, k) == res[l].kind = k /\ pc[l] # "cb_done" /\ pc'[l] # pc[l]

\* This step is _process_audio ending on listener l, by return or exception.
CallbackEnds(l) == InCallback(l) /\ pc'[l] \in {"cb_done", "dead"}

\* The calls of set_clipboard_text with a non-empty string that the
\* callback of listener l has made.
NonEmptyWrites(l) == {i \in 1..Len(wrote[l]) : wrote[l][i].text # <<>>}

\* Listener l holds a non-empty recognized text.
NonEmptyResult(l) == res[l].kind = "text" /\ res[l].text # <<>>

\* ----------------------------------------------------------------- claims

\* C1: at most one recording session is active at any instant: no two
\* sessions have a calibration thread or a listener thread alive at once (a
\* new one is started only when every earlier one has ended).
C1_AtMostOneSessionAlive ==
    \A s, t \in Sessions : s # t => ~(SessionAlive(s) /\ SessionAlive(t))

\* C2: a toggle from armed ends with is_recording false and stop_listening
\* cleared, and the listener of a session the user toggled off is stopped
\* or never starts.
C2_ToggleFromArmedDisarms ==
    /\ [][DisarmEnds => (~is_recording' /\ stop_listening' = None)]_vars
    /\ [](\A s \in toggledOff : ~running[s])

\* C3: a toggle from idle ends with is_recording true, recognized_text
\* empty and the recording icon shown, having started exactly one
\* calibration thread.
C3_ToggleFromIdleArms ==
    /\ [][ArmEnds => (is_recording' /\ recognized_text' = <<>>
                        /\ icon' = "stop")]_vars
    /\ [][(pc[UI] = "start_spawn" /\ pc'[UI] # pc[UI]) =>
            (/\ spawned' = spawned + 1
             /\ \A s \in Sessions :
                  (calib'[s] # calib[s]) <=>
                      (s = spawned' /\ calib'[s] = "calibrating"))]_vars

\* C4: every tooltip creation and every button icon change is executed by
\* the UI thread.
C4_UIEffectsOnUIThread == \A e \in effects : e.by = "ui"

\* C5: a successful recognition of a non-empty text t that arrives while
\* the session is armed appends t (and a space) to recognized_text, shows
\* exactly one acknowledgment tooltip and leaves the session disarmed:
\* is_recording false, stop_listening cleared, the idle icon.
C5_SuccessDisarms ==
    [][\A l \in Sessions :
         (res[l].armed /\ NonEmptyResult(l)) =>
            /\ (pc[l] = "append_store" /\ pc'[l] # pc[l]) =>
                   recognized_text' = recognized_text \o res[l].text \o Space
            /\ CallbackEnds(l) =>
                   (/\ pc'[l] = "cb_done"
                    /\ tips'[l] = <<"ack">>
                    /\ ~is_recording'
                    /\ stop_listening' = None
                    /\ icon' = "mic")]_vars

\* C6: when the clipboard write of a successful recognition of t succeeds,
\* the clipboard holds the accumulated recognized text, t and one trailing
\* space.
C6_ClipboardHasTrailingSpace ==
    [][\A l \in Sessions :
         (pc[l] = "copy" /\ pc'[l] # pc[l] /\ wrote'[l][Len(wrote'[l])].ok)
            => clipboard' = res[l].text \o Space]_vars

C8_RequestErrorChangesNothing ==
    [][\A l \in Sessions :
         /\ CallbackStep(l, "error") =>
               /\ UNCHANGED <<is_recording, stop_listening, recognized_text,
                              icon, clipboard, running>>
               /\ pc'[l] = "cb_done"
               /\ tips'[l] = <<"connection">>
               /\ wrote'[l] = <<>>
         /\ (res[l].kind = "error" /\ pc[l] = "cb_done" /\ pc'[l] # pc[l])
               => (pc'[l] = "listening" /\ UNCHANGED running)]_vars

\* C8, its case: a RequestError callback that arrived while the session was
\* armed has ended; the session is armed and its listener runs.
C8_Witness ==
    \E l \in Sessions :
        /\ pc[l] = "cb_done"
        /\ res[l].kind = "error" /\ res[l].armed
        /\ tips[l] = <<"connection">>
        /\ is_recording /\ icon = "stop" /\ stop_listening = l
        /\ running[l]
        /\ clipboard = PriorClipboard

C10_IconReflectsState ==
    (pc[UI] = "idle" /\ \A l \in Sessions : ~InCallback(l))
        => (icon = "stop" <=> is_recording)

\* One statement of _stop_recording run by thread th (lines 144-148).
StopStep(th) ==
    \/ StopCheck(th)
    \/ StopCall(th)
    \/ StopClear(th)
    \/ StopIcon(th)
    \/ StopFlag(th)

\* The place of a statement of _stop_recording in the method.
StopRank(p) ==
    CASE p = "stop_check" -> 1
      [] p = "stop_call" -> 2
      [] p = "stop_clear" -> 3
      [] p = "stop_icon" -> 4
      [] p = "stop_flag" -> 5

\* Thread th is inside _process_audio's success branch, or has ended it.
AfterSuccess(l) == NonEmptyResult(l) /\ Len(wrote[l]) = 1

\* C14: a failing clipboard write is swallowed.  set_clipboard_text does not
\* raise: the callback goes on to its next statement and shows no further
\* tooltip; after a failing write on the success path the callback ends
\* with the session disarmed (is_recording false, stop_listening cleared,
\* the idle icon) and the acknowledgment as its only tooltip; after a
\* failing write on the unknown-value path the callback ends with
\* is_recording, stop_listening and the icon as they were.
C14_ClipboardFailureSwallowed ==
    [][\A l \in Sessions :
         /\ (pc[l] = "copy" /\ pc'[l] # pc[l] /\ ~wrote'[l][1].ok) =>
               (pc'[l] = "stop_check" /\ clipboard' = clipboard
                  /\ tips'[l] = <<"ack">>)
         /\ (pc[l] = "unknown_copy" /\ pc'[l] # pc[l] /\ ~wrote'[l][1].ok) =>
               (/\ pc'[l] = "cb_done" /\ clipboard' = clipboard
                /\ tips'[l] = <<"retry">>
                /\ UNCHANGED <<is_recording, stop_listening, icon>>)
         /\ (AfterSuccess(l) /\ ~wrote[l][1].ok /\ CallbackEnds(l)) =>
               (/\ pc'[l] = "cb_done"
                /\ tips'[l] = <<"ack">>
                /\ ~is_recording'
                /\ stop_listening' = None
                /\ icon' = "mic")]_vars

\* C15: disarming never waits for the listener.  A thread inside
\* _stop_recording can always run its next statement, whatever the
\* listeners are doing and also when the thread is the listener it stops,
\* and every statement it runs takes it further down the method or out of
\* it.
C15_StopNeverWaits ==
    /\ [](\A th \in Threads : pc[th] \in StopPcs => ENABLED StopStep(th))
    /\ [][\A th \in Threads :
            (pc[th] \in StopPcs /\ pc'[th] # pc[th]) =>
               (\/ pc'[th] \notin StopPcs
                \/ StopRank(pc'[th]) > StopRank(pc[th]))]_vars

\* C15, its case: a listener has called its own stopper from inside its
\* callback, after a successful recognition, and is past the call while
\* its thread is still alive.
C15_Witness ==
    \E l \in Sessions :
        /\ pc[l] = "stop_clear"
        /\ NonEmptyResult(l)
        /\ stop_listening = l
        /\ ~running[l]

\* C17: no listener runs while the session is idle: a live listener whose
\* running flag is set and whose stopper is stored in stop_listening
\* implies that is_recording is true.
C17_NoListenerWhileIdle ==
    \A s \in Sessions :
        (ListenerAlive(s) /\ running[s] /\ stop_listening = s)
            => is_recording

\* C18: a callback of a session the user has disarmed has no effect: no
\* step of the listener of such a session changes the clipboard or
\* recognized_text, and once a later session is armed no such step changes
\* is_recording, the icon or stop_listening.
C18_StaleCallbackHasNoEffect ==
    [][\A l \in toggledOff :
         (pc'[l] # pc[l]) =>
            /\ UNCHANGED <<clipboard, recognized_text>>
            /\ spawned > l =>
                  UNCHANGED <<is_recording, icon, stop_listening>>]_vars

\* C19: recognition is one-shot per arming: recognized_text is empty or
\* exactly one recognized utterance followed by one space.
C19_OneUtterancePerArming ==
    \/ recognized_text = <<>>
    \/ \E t \in Texts \ {<<>>} : recognized_text = t \o Space

\* C11: the opacity of a tooltip starts at 0, never falls during the
\* fade-in and is the cap when it ends, stays at the cap until the timer
\* set to the caller's duration has expired, never rises from the start of
\* the fade-out on and has come down to 0 tenths when the tooltip is
\* destroyed, which is how the fade-out ends; it never exceeds the cap.
C11_OpacityRisesHoldsFalls ==
    /\ [](\A i \in Tooltips :
            /\ ~Less(Cap, tooltip[i].attr)
            /\ tooltip[i].state = "none" => tooltip[i].attr = Zero
            /\ tooltip[i].state = "hold" => tooltip[i].attr = Cap
            /\ tooltip[i].state = "destroyed" =>
                  Tenths(tooltip[i].attr) = 0)
    /\ [][\A i \in Tooltips :
            /\ tooltip[i].state = "fade_in" =>
                  ~Less(tooltip'[i].attr, tooltip[i].attr)
            /\ (tooltip[i].state = "fade_in" /\ tooltip'[i].state = "hold")
                  => tooltip'[i].left = tooltip[i].duration
            /\ (tooltip[i].state = "hold" /\ tooltip'[i].state # "hold")
                  => (tooltip[i].left = 0 /\ tooltip'[i].state = "fade_out")
            /\ tooltip[i].state \in {"hold", "fade_out", "destroyed"} =>
                  ~Less(tooltip[i].attr, tooltip'[i].attr)
            /\ (tooltip[i].state = "fade_out"
                  /\ tooltip'[i].state # "fade_out")
                  => tooltip'[i].state = "destroyed"]_vars

\* C11, its case: a tooltip has run its whole animation and is destroyed
\* while another one is still fading in.
C11_Witness ==
    \E i, j \in Tooltips :
        /\ tooltip[i].state = "destroyed"
        /\ tooltip[j].state = "fade_in"
        /\ Tenths(tooltip[j].attr) > 0

\* C12: with a running event loop every created tooltip is eventually
\* destroyed, after exactly one fade-out and by exactly one destroy, and
\* stays so, whatever other tooltips are shown meanwhile.
C12_EveryTooltipDestroyed ==
    /\ \A i \in Tooltips :
          (tooltip[i].state # "none") ~> (tooltip[i].state = "destroyed")
    /\ [](\A i \in Tooltips :
            /\ tooltip[i].fades <= 1
            /\ tooltip[i].destroys <= 1
            /\ tooltip[i].state = "destroyed" <=> tooltip[i].destroys = 1
            /\ tooltip[i].state \in {"fade_out", "destroyed"}
                  <=> tooltip[i].fades = 1)
    /\ [][\A i \in Tooltips :
            tooltip[i].state = "destroyed" => tooltip'[i] = tooltip[i]]_vars

\* C12, its case: two tooltips, the first with the longer duration, have
\* both been destroyed.
C12_Witness ==
    /\ \A i \in Tooltips : tooltip[i].state = "destroyed"
    /\ tooltip[1].duration > tooltip[2].duration

\* C13: the rectangle _position_tooltip gives a tooltip lies inside the
\* screen.
C13_TooltipOnScreen ==
    geometry # <<>> =>
        /\ 0 <= geometry[1]
        /\ 0 <= geometry[2]
        /\ geometry[1] + geometry[3] <= screen[1]
        /\ geometry[2] + geometry[4] <= screen[2]

\* C16: a failing icon file never aborts startup: every step of the
\* construction can run until the interface is ready, and once _load_icons
\* has run with a file that fails, the icons are the two generated ones,
\* both present and distinct.
C16_IconFallback ==
    /\ stage # "aborted"
    /\ stage # "ready" => ENABLED Construct
    /\ (stage \notin {"configure", "frame", "icons"}
          /\ ~(assets.listen /\ assets.stop)) =>
             /\ icons = CreateFallbackIcons
             /\ icons.mic # "none"
             /\ icons.stop # "none"
             /\ icons.mic # icons.stop

\* C16, its case: the interface is ready although the stop icon's file
\* failed to load.
C16_Witness ==
    /\ stage = "ready"
    /\ assets.listen
    /\ ~assets.stop
    /\ icons.stop = "red"

====
